---- MODULE Spec2Model ----
(***************************************************************************)
(* Deforum Web Pilot: the trajectory capture, smoothing and schedule       *)
(* export pipeline (src/src/logic/recorder.ts, src/src/logic/export.ts).   *)
(*                                                                         *)
(* Numbers.  Channel values, scales and schedule values are exact          *)
(* rationals <<n, d>> (d > 0, lowest terms); <<0, 0>> is NaN, the result   *)
(* of arithmetic on an out-of-range array read.  Angles are counted in     *)
(* quarter turns (1 = pi/2 rad), where sine and cosine are exact.          *)
(* Times (deltaTime, accumulator, fixedDelta) are binary floating-point    *)
(* numbers: integers counted in TimeUnit-ths of a second that carry at     *)
(* most MantBits significant bits, every sum and difference rounded to     *)
(* nearest-even as IEEE-754 does (the program's doubles carry 53 bits).    *)
(***************************************************************************)
EXTENDS Integers, Sequences, FiniteSets, TLC

\* ------------------------------------------------------------------ bounds
MantBits == 8        \* significant bits of a modelled floating-point time
MaxFrames == 3       \* samples per recording
MaxTimedFrames == 6  \* samples per recording in the timing study
NumPoses == 2        \* way-points of the flight path the camera follows
MaxWindow == 3       \* smoothing window sizes 1..MaxWindow
MaxIterations == 2   \* smoothing iteration counts 0..MaxIterations
MaxPasses == 3       \* smoothing passes compounded on one set of arrays
MaxData == 4         \* length of the arrays given to applyMovingAverage alone
MaxWrites == 1       \* writes of a caller into objects an accessor returned
MaxExportFrames == 10  \* length of the channel arrays given to generateSchedules
MaxAppFrames == 2       \* frames of a recording made through App's handlers
MaxValidatedFrames == 3 \* totalFrames given to validateOptions alone
MaxLoopFrames == 3      \* length of the channel arrays of a generateSchedules run step by step

\* ------------------------------------------------------------ integer help
Abs(x) == IF x < 0 THEN -x ELSE x
Min(a, b) == IF a <= b THEN a ELSE b
Max(a, b) == IF a >= b THEN a ELSE b

RECURSIVE GCD(_, _)
GCD(a, b) == IF b = 0 THEN a ELSE GCD(b, a % b)

\* the element of a one-element set: a value bound this way is computed once,
\* however often the expression that uses it names it
The(S) == CHOOSE x \in S : TRUE

RECURSIVE Pow2(_)
Pow2(n) == IF n <= 0 THEN 1 ELSE 2 * Pow2(n - 1)

RECURSIVE BitLength(_)
BitLength(x) == IF x <= 0 THEN 0 ELSE 1 + BitLength(x \div 2)

\* ---------------------------------------------------------------- rationals
NaN == <<0, 0>>
IsNaN(r) == r[2] = 0

Norm(n0, d0) ==
    The({ IF d = 0 THEN NaN
          ELSE The({ <<(s * n) \div g, (s * d) \div g>> :
                     g \in {GCD(Abs(n), Abs(d))}, s \in {IF d < 0 THEN -1 ELSE 1} })
          : n \in {n0}, d \in {d0} })

R(n) == <<n, 1>>
Frac(n, d) == Norm(n, d)
RAdd(a0, b0) ==
    The({ IF IsNaN(a) \/ IsNaN(b) THEN NaN
          ELSE The({ Norm(a[1] * (b[2] \div g) + b[1] * (a[2] \div g),
                          a[2] * (b[2] \div g)) : g \in {GCD(a[2], b[2])} })
          : a \in {a0}, b \in {b0} })
RNeg(a0) == The({ IF IsNaN(a) THEN NaN ELSE <<-a[1], a[2]>> : a \in {a0} })
RSub(a, b) == RAdd(a, RNeg(b))
RMul(a0, b0) ==
    The({ IF IsNaN(a) \/ IsNaN(b) THEN NaN
          ELSE The({ Norm((a[1] \div g) * (b[1] \div h), (a[2] \div h) * (b[2] \div g)) :
                     g \in {Max(1, GCD(Abs(a[1]), b[2]))},
                     h \in {Max(1, GCD(Abs(b[1]), a[2]))} })
          : a \in {a0}, b \in {b0} })
RDiv(a0, b0) ==
    The({ IF IsNaN(a) \/ IsNaN(b) THEN NaN ELSE RMul(a, Norm(b[2], b[1]))
          : a \in {a0}, b \in {b0} })
RLess(a, b) == ~IsNaN(a) /\ ~IsNaN(b) /\ a[1] * b[2] < b[1] * a[2]
RLeq(a, b) == ~IsNaN(a) /\ ~IsNaN(b) /\ a[1] * b[2] <= b[1] * a[2]
Zero == R(0)
One == R(1)

\* ----------------------------------------------------- floating-point time
\* One second is TimeUnit units; 1/fps for fps < 64 then has an ulp of at
\* least one unit, so every modelled time is an integer number of units.
TimeUnit == Pow2(MantBits + 5)

\* x rounded to MantBits significant bits, ties to even
Fl(x) ==
    IF x < Pow2(MantBits) THEN x
    ELSE LET ulp == Pow2(BitLength(x) - MantBits)
             q == x \div ulp
             r == x % ulp
         IN  IF 2 * r > ulp \/ (2 * r = ulp /\ q % 2 = 1)
             THEN (q + 1) * ulp ELSE q * ulp

\* the floating-point quotient 1 / n
FlRecip(n) ==
    LET ulp == Pow2(Max(0, BitLength(TimeUnit \div n) - MantBits))
        q == TimeUnit \div (n * ulp)
        r == TimeUnit - q * n * ulp
    IN  IF 2 * r > n * ulp \/ (2 * r = n * ulp /\ q % 2 = 1)
        THEN (q + 1) * ulp ELSE q * ulp

\* ------------------------------------------------------------------- state
VARIABLES
    samples,                \* Recorder.samples
    channelArrays,          \* Recorder.channelArrays: Null or <<arrays>>
    originalChannelArrays,  \* Recorder.originalChannelArrays: Null or <<arrays>>
    isRecording,            \* Recorder.isRecording
    currentFrame,           \* Recorder.currentFrame
    accumulator,            \* Recorder.accumulator
    fixedDelta,             \* Recorder.fixedDelta
    camera,                 \* the piloted camera: its way-point on the flight path
    caller,                 \* the Recorder's caller: the objects it got from accessors that are
                            \* still the Recorder's own, and how often it wrote into one
    callArgs,               \* arguments of the function under study (function studies)
    callResult,             \* Null, or <<what it returned>>
    elapsed,                \* history: exact sum of deltaTime since startRecording
    preSmoothing,           \* history: the arrays before the first smoothing
    passes,                 \* history: smoothing passes run on the arrays since they were built or reverted
    discarded,              \* history: the arrays the last revertSmoothing replaced
    lastOp,                 \* history: the operation that ran last
    playback,               \* the Playback driver: isPlaying, isPaused, currentFrame,
                            \* accumulator, fixedDelta
    ui,                     \* App's React state: isRecording, isPlaying, totalFrames, currentFrame
    updateCall,             \* Null, or <<the last Playback.update: its deltaTime, what it returned>>
    presented,              \* Null, or <<the camera state the last getCurrentCameraState returned>>
    thrown,                 \* Null, or <<the message of the Error the last handler threw>>
    stoppedArrays,          \* history: the channel arrays as they last existed
    loop                    \* Null, or the generateSchedules call in progress: where it
                            \* is (phase), its loop variable and its Maps

recVars == <<samples, channelArrays, originalChannelArrays, isRecording,
             currentFrame, accumulator, fixedDelta>>
histVars == <<elapsed, preSmoothing, passes, discarded, lastOp>>
callVars == <<callArgs, callResult>>
appVars == <<playback, ui, updateCall, presented, thrown, stoppedArrays, loop>>
vars == <<recVars, camera, caller, callVars, histVars, appVars>>

Null == <<>>
Some(x) == <<x>>
Val(opt) == opt[1]

Channels == {"translation_x", "translation_y", "translation_z",
             "rotation_3d_x", "rotation_3d_y", "rotation_3d_z", "fov"}

\* The camera pose at way-point k of the flight path (position in world
\* units, rotation in quarter turns, field of view in degrees).
Pose(k) == [px |-> R(10 * k), py |-> R(k * k), pz |-> R(-k),
            rx |-> R(k % 2), ry |-> R(k), rz |-> R(0), fov |-> R(70)]

TargetRates == {24, 30, 60}           \* sampler frame rates set from the UI
RenderRates == {10, 20, 24, 30, 60}   \* frame rates of the render loop (timing study)
SteadyRates == {15, 30}               \* frame rates of the render loop (recording sessions)
FrameDeltas(rates) == {FlRecip(hz) : hz \in rates}

\* ---------------------------------------------------------------- Recorder
\* recordSample: one Sample from the camera as it is at call time
NewSample(cam, frame, delta) ==
    [frame |-> frame, timeSeconds |-> Fl(frame * delta),
     px |-> cam.px, py |-> cam.py, pz |-> cam.pz,
     rx |-> cam.rx, ry |-> cam.ry, rz |-> cam.rz, fov |-> cam.fov]

\* update's loop: while (accumulator >= fixedDelta) { accumulator -= fixedDelta; recordSample }
RECURSIVE RecordLoop(_, _, _, _, _)
RecordLoopOnce(acc, frame, smps, cam, delta) ==
    IF acc >= delta
    THEN [acc |-> Fl(acc - delta), frame |-> frame + 1,
          smps |-> Append(smps, NewSample(cam, frame, delta))]
    ELSE [acc |-> acc, frame |-> frame, smps |-> smps]
RecordLoop(acc0, frame, smps0, cam, delta) ==
    The({IF acc >= delta
         THEN RecordLoop(Fl(acc - delta), frame + 1,
                         Append(smps, NewSample(cam, frame, delta)), cam, delta)
         ELSE [acc |-> acc, frame |-> frame, smps |-> smps]
         : acc \in {acc0}, smps \in {smps0}})

nonDestructiveCopy(arrays) == [c \in Channels |-> arrays[c]]

\* buildChannelArrays: the seven arrays read off the samples
ArraysOf(smps) ==
    [translation_x |-> [i \in 1..Len(smps) |-> smps[i].px],
     translation_y |-> [i \in 1..Len(smps) |-> smps[i].py],
     translation_z |-> [i \in 1..Len(smps) |-> smps[i].pz],
     rotation_3d_x |-> [i \in 1..Len(smps) |-> smps[i].rx],
     rotation_3d_y |-> [i \in 1..Len(smps) |-> smps[i].ry],
     rotation_3d_z |-> [i \in 1..Len(smps) |-> smps[i].rz],
     fov |-> [i \in 1..Len(smps) |-> smps[i].fov]]

RECURSIVE SumRange(_, _, _)
SumRange(data, lo, hi) ==
    IF lo > hi THEN Zero ELSE RAdd(data[lo], SumRange(data, lo + 1, hi))

\* applyMovingAverage; data[i] of the code is data[i + 1] here
applyMovingAverageHalfOpen(data, windowSize) ==
    IF windowSize <= 1 THEN data
    ELSE LET halfWindow == windowSize \div 2
         IN  [i \in 1..Len(data) |->
                LET lo == Max(1, i - halfWindow)
                    hi == Min(Len(data), i + halfWindow - 1)
                IN  RDiv(SumRange(data, lo, hi), R(hi - lo + 1))]
applyMovingAverageDropLast(data, windowSize) ==
    IF windowSize <= 1 THEN data
    ELSE LET halfWindow == windowSize \div 2
         IN  [i \in 1..(Len(data) - 1) |->
                LET lo == Max(1, i - halfWindow)
                    hi == Min(Len(data), i + halfWindow)
                IN  RDiv(SumRange(data, lo, hi), R(hi - lo + 1))]
applyMovingAverage(data, windowSize) ==
    IF windowSize <= 1 THEN data
    ELSE LET halfWindow == windowSize \div 2
         IN  [i \in 1..Len(data) |->
                LET lo == Max(1, i - halfWindow)
                    hi == Min(Len(data), i + halfWindow)
                IN  RDiv(SumRange(data, lo, hi), R(hi - lo + 1))]

smoothChannelArrays(arrays, windowSize) ==
    [c \in Channels |-> applyMovingAverage(arrays[c], windowSize)]

\* applySmoothing's loop: for (i = 0; i < iterations; i++) smoothChannelArrays(windowSize)
RECURSIVE SmoothPasses(_, _, _)
SmoothPasses(arrays, windowSize, iterations) ==
    IF iterations <= 0 THEN arrays
    ELSE SmoothPasses(smoothChannelArrays(arrays, windowSize), windowSize, iterations - 1)

SmoothingOptions ==
    [method : {"average"}, windowSize : 1..MaxWindow,
     iterations : 0..MaxIterations, nonDestructive : BOOLEAN]

\* ------------------------------------------------------- Recorder operations
InitialRate == 30

NoHandles == [channels |-> {}, originals |-> {}, samples |-> {}, writes |-> 0]

InitRecorder ==
    /\ samples = <<>>
    /\ channelArrays = Null
    /\ originalChannelArrays = Null
    /\ isRecording = FALSE
    /\ currentFrame = 0
    /\ accumulator = 0
    /\ fixedDelta = FlRecip(InitialRate)
    /\ camera = 1
    /\ caller = NoHandles
    /\ elapsed = 0
    /\ preSmoothing = Null
    /\ passes = 0
    /\ discarded = Null
    /\ lastOp = "new"

\* new Playback(recorder, 30) and App's useState initial values
InitApp ==
    /\ playback = [isPlaying |-> FALSE, isPaused |-> FALSE, currentFrame |-> 0,
                   accumulator |-> 0, fixedDelta |-> FlRecip(InitialRate)]
    /\ ui = [isRecording |-> FALSE, isPlaying |-> FALSE, totalFrames |-> 0, currentFrame |-> 0]
    /\ updateCall = Null
    /\ presented = Null
    /\ thrown = Null
    /\ stoppedArrays = Null
    /\ loop = Null

Init ==
    /\ InitRecorder
    /\ InitApp
    /\ callArgs = Null
    /\ callResult = Null

SetTargetFPS(fps) ==
    /\ fixedDelta' = FlRecip(fps)
    /\ lastOp' = "setTargetFPS"
    /\ UNCHANGED <<samples, channelArrays, originalChannelArrays, isRecording,
                   currentFrame, accumulator, camera, caller, callVars,
                   elapsed, preSmoothing, passes, discarded>>

StartRecordingContinuing ==
    /\ samples' = <<>>
    /\ channelArrays' = Null
    /\ originalChannelArrays' = Null
    /\ isRecording' = TRUE
    /\ caller' = [NoHandles EXCEPT !.writes = caller.writes]
    /\ elapsed' = 0
    /\ preSmoothing' = Null
    /\ passes' = 0
    /\ discarded' = Null
    /\ lastOp' = "startRecording"
    /\ UNCHANGED <<currentFrame, accumulator, fixedDelta, camera, callVars>>
StartRecording ==
    /\ samples' = <<>>
    /\ channelArrays' = Null
    /\ originalChannelArrays' = Null
    /\ isRecording' = TRUE
    /\ currentFrame' = 0
    /\ accumulator' = 0
    /\ caller' = [NoHandles EXCEPT !.writes = caller.writes]
    /\ elapsed' = 0
    /\ preSmoothing' = Null
    /\ passes' = 0
    /\ discarded' = Null
    /\ lastOp' = "startRecording"
    /\ UNCHANGED <<fixedDelta, camera, callVars>>

StopRecordingWithoutBaseline ==
    /\ isRecording' = FALSE
    /\ IF Len(samples) = 0
       THEN UNCHANGED <<channelArrays, caller, preSmoothing, passes, discarded>>
       ELSE /\ channelArrays' = Some(ArraysOf(samples))
            /\ caller' = [caller EXCEPT !.channels = {}, !.originals = {}]
            /\ preSmoothing' = Null
            /\ passes' = 0
            /\ discarded' = Null
    /\ lastOp' = "stopRecording"
    /\ UNCHANGED <<samples, originalChannelArrays, currentFrame, accumulator, fixedDelta,
                   camera, callVars, elapsed>>

\* stopRecording: isRecording = false; buildChannelArrays()
StopRecording ==
    /\ isRecording' = FALSE
    /\ IF Len(samples) = 0
       THEN UNCHANGED <<channelArrays, originalChannelArrays, caller,
                        preSmoothing, passes, discarded>>
       ELSE /\ channelArrays' = Some(ArraysOf(samples))
            /\ originalChannelArrays' = Some(nonDestructiveCopy(ArraysOf(samples)))
            /\ caller' = [caller EXCEPT !.channels = {}, !.originals = {}]
            /\ preSmoothing' = Null
            /\ passes' = 0
            /\ discarded' = Null
    /\ lastOp' = "stopRecording"
    /\ UNCHANGED <<samples, currentFrame, accumulator, fixedDelta, camera,
                   callVars, elapsed>>

\* Pilot.update: the camera moves on along the flight path
PilotUpdate ==
    /\ camera < NumPoses
    /\ camera' = camera + 1
    /\ UNCHANGED <<recVars, caller, callVars, histVars>>

\* Recorder.update(camera, deltaTime)
UpdateResult(deltaTime) ==
    RecordLoop(Fl(accumulator + deltaTime), currentFrame, samples, Pose(camera), fixedDelta)

UpdateUnarmed(deltaTime) ==
    /\ accumulator' = UpdateResult(deltaTime).acc
    /\ currentFrame' = UpdateResult(deltaTime).frame
    /\ samples' = UpdateResult(deltaTime).smps
    /\ elapsed' = elapsed + deltaTime
    /\ lastOp' = "update"
    /\ UNCHANGED <<channelArrays, originalChannelArrays, isRecording, fixedDelta,
                   camera, caller, callVars, preSmoothing, passes, discarded>>
Update(deltaTime) ==
    /\ IF ~isRecording
       THEN UNCHANGED <<samples, currentFrame, accumulator, elapsed>>
       ELSE /\ accumulator' = UpdateResult(deltaTime).acc
            /\ currentFrame' = UpdateResult(deltaTime).frame
            /\ samples' = UpdateResult(deltaTime).smps
            /\ elapsed' = elapsed + deltaTime
    /\ lastOp' = "update"
    /\ UNCHANGED <<channelArrays, originalChannelArrays, isRecording, fixedDelta,
                   camera, caller, callVars, preSmoothing, passes, discarded>>

\* applySmoothing's baseline: if (options.nonDestructive && !this.originalChannelArrays) snapshot
BaselineAlways(options) ==
    IF options.nonDestructive
    THEN Some(nonDestructiveCopy(Val(channelArrays)))
    ELSE originalChannelArrays
Baseline(options) ==
    IF options.nonDestructive /\ originalChannelArrays = Null
    THEN Some(nonDestructiveCopy(Val(channelArrays)))
    ELSE originalChannelArrays

ApplySmoothing(options) ==
    /\ IF channelArrays = Null
       THEN UNCHANGED <<channelArrays, originalChannelArrays, caller,
                        preSmoothing, passes, discarded>>
       ELSE /\ originalChannelArrays' = Baseline(options)
            /\ channelArrays' =
                  Some(SmoothPasses(Val(channelArrays), options.windowSize, options.iterations))
            /\ caller' = IF options.iterations > 0
                       THEN [caller EXCEPT !.channels = {}] ELSE caller
            /\ preSmoothing' = IF preSmoothing = Null THEN channelArrays ELSE preSmoothing
            /\ passes' = passes + Max(0, options.iterations)
            /\ discarded' = Null
    /\ lastOp' = "applySmoothing"
    /\ UNCHANGED <<samples, isRecording, currentFrame, accumulator, fixedDelta,
                   camera, callVars, elapsed>>

RevertSmoothing ==
    /\ IF originalChannelArrays # Null
       THEN /\ channelArrays' = Some(nonDestructiveCopy(Val(originalChannelArrays)))
            /\ caller' = [caller EXCEPT !.channels = {}]
            /\ passes' = 0
            /\ discarded' = channelArrays
       ELSE UNCHANGED <<channelArrays, caller, passes, discarded>>
    /\ lastOp' = "revertSmoothing"
    /\ UNCHANGED <<samples, originalChannelArrays, isRecording, currentFrame,
                   accumulator, fixedDelta, camera, callVars, elapsed, preSmoothing>>

\* clear() leaves the accumulator as it is
Clear ==
    /\ samples' = <<>>
    /\ channelArrays' = Null
    /\ originalChannelArrays' = Null
    /\ isRecording' = FALSE
    /\ currentFrame' = 0
    /\ caller' = [NoHandles EXCEPT !.writes = caller.writes]
    /\ preSmoothing' = Null
    /\ passes' = 0
    /\ discarded' = Null
    /\ lastOp' = "clear"
    /\ UNCHANGED <<accumulator, fixedDelta, camera, callVars, elapsed>>

Next ==
    \/ StartRecording /\ UNCHANGED appVars
    \/ StopRecording /\ UNCHANGED appVars
    \/ PilotUpdate /\ UNCHANGED appVars
    \/ \E dt \in FrameDeltas(SteadyRates) :
          /\ ~isRecording \/ Len(UpdateResult(dt).smps) <= MaxFrames
          /\ Update(dt)
          /\ UNCHANGED appVars
    \/ \E options \in SmoothingOptions :
          /\ passes + options.iterations <= MaxPasses
          /\ ApplySmoothing(options)
          /\ UNCHANGED appVars
    \/ RevertSmoothing /\ UNCHANGED appVars
    \/ Clear /\ UNCHANGED appVars

Spec == Init /\ [][Next]_vars

\* C2: once a stopped recording has been smoothed (any options, any number
\* of applySmoothing calls), revertSmoothing leaves all seven arrays equal,
\* element by element, to the arrays before the first smoothing.
C2_RevertRestores ==
    (lastOp = "revertSmoothing" /\ preSmoothing # Null) => channelArrays = preSmoothing

\* a revert has just replaced arrays that two or more passes had changed
C2_Witness ==
    /\ lastOp = "revertSmoothing"
    /\ preSmoothing # Null
    /\ discarded # Null
    /\ discarded # preSmoothing
    /\ channelArrays = preSmoothing
    /\ Len(samples) >= 3

\* C3: whenever channel arrays exist, all seven have the length
\* getTotalFrames(), the number of recorded samples; smoothing and revert keep it.
C3_EqualLength ==
    channelArrays # Null =>
        \A c \in Channels : Len(Val(channelArrays)[c]) = Len(samples)

\* arrays of three samples that smoothing has changed
C3_Witness ==
    /\ channelArrays # Null
    /\ lastOp = "applySmoothing"
    /\ passes >= 2
    /\ channelArrays # preSmoothing
    /\ Len(samples) = 3
    /\ \A c \in Channels : Len(Val(channelArrays)[c]) = 3

\* ------------------------------------------------- the Recorder's accessors
\* What a caller holds after an accessor returned: the spread
\* { ...this.channelArrays } copies the object of seven fields and not the
\* seven arrays, [...this.samples] copies the array and not the Sample
\* objects, and getSampleAtFrame hands out the Sample itself.
\* Shares: the Recorder's own objects reachable from what the accessor returns
Shares(accessor, frame) ==
    [channels |->
        IF accessor = "getChannelArrays" /\ channelArrays # Null THEN Channels ELSE {},
     originals |->
        IF accessor = "getOriginalChannelArrays" /\ originalChannelArrays # Null
        THEN Channels ELSE {},
     samples |->
        IF accessor = "getSamples" THEN 1..Len(samples)
        ELSE IF accessor = "getSampleAtFrame" /\ frame >= 0 /\ frame < Len(samples)
             THEN {frame + 1} ELSE {}]

Accessors == {"getChannelArrays", "getOriginalChannelArrays", "getSamples", "getSampleAtFrame"}

Accessor(accessor, frame) ==
    /\ caller' = [caller EXCEPT
          !.channels = @ \cup Shares(accessor, frame).channels,
          !.originals = @ \cup Shares(accessor, frame).originals,
          !.samples = @ \cup Shares(accessor, frame).samples]
    /\ lastOp' = accessor
    /\ UNCHANGED <<recVars, camera, callVars, elapsed, preSmoothing, passes, discarded>>

CallerValue == R(99)                       \* the value the caller writes
WrittenChannels == {"translation_x", "fov"}   \* the arrays it writes into, at index 0
WrittenFields == {"px"}                     \* the Sample fields it writes

\* the caller assigns to an element of an array, or to a field of a Sample, it holds
CallerWrite ==
    /\ caller' = [caller EXCEPT !.writes = @ + 1]
    /\ lastOp' = "callerWrite"
    /\ \/ \E c \in caller.channels \cap WrittenChannels :
             /\ channelArrays' = Some([Val(channelArrays) EXCEPT ![c][1] = CallerValue])
             /\ UNCHANGED <<samples, originalChannelArrays>>
       \/ \E c \in caller.originals \cap WrittenChannels :
             /\ originalChannelArrays' =
                   Some([Val(originalChannelArrays) EXCEPT ![c][1] = CallerValue])
             /\ UNCHANGED <<samples, channelArrays>>
       \/ \E i \in caller.samples : \E f \in WrittenFields :
             /\ samples' = [samples EXCEPT ![i][f] = CallerValue]
             /\ UNCHANGED <<channelArrays, originalChannelArrays>>
    /\ UNCHANGED <<isRecording, currentFrame, accumulator, fixedDelta, camera,
                   callVars, elapsed, preSmoothing, passes, discarded>>

\* A caller of the Recorder's interface: it records at the sampler's own
\* rate, smooths with the panel's window, reads through the accessors and
\* writes into what they returned.
CallerSmoothing ==
    {[method |-> "average", windowSize |-> MaxWindow, iterations |-> 1, nonDestructive |-> nd] :
        nd \in BOOLEAN}

NextCaller ==
    \/ StartRecording /\ UNCHANGED appVars
    \/ StopRecording /\ UNCHANGED appVars
    \/ \E dt \in FrameDeltas({InitialRate}) :
          /\ ~isRecording \/ Len(UpdateResult(dt).smps) <= MaxFrames
          /\ Update(dt)
          /\ UNCHANGED appVars
    \/ \E options \in CallerSmoothing :
          /\ passes + options.iterations <= MaxPasses
          /\ ApplySmoothing(options)
          /\ UNCHANGED appVars
    \/ RevertSmoothing /\ UNCHANGED appVars
    \/ \E accessor \in Accessors, frame \in {-1, 0} :
          Accessor(accessor, frame) /\ UNCHANGED appVars
    \/ caller.writes < MaxWrites /\ CallerWrite /\ UNCHANGED appVars

SpecCaller == Init /\ [][NextCaller]_vars

\* C4: nothing an accessor returned shares an array or object with the
\* Recorder, so no write of the caller into what it was given changes the
\* Recorder's samples, channel arrays or baseline.
C4_DefensiveCopies ==
    [][caller'.writes # caller.writes =>
          UNCHANGED <<samples, channelArrays, originalChannelArrays>>]_vars

\* ------------------------------------------------------------ timing study
\* Recorder.update under the frame intervals of a render loop whose rate
\* varies, for each sampler rate the UI can set before a recording starts.
NextTiming ==
    \/ StartRecording /\ UNCHANGED appVars
    \/ StopRecording /\ UNCHANGED appVars
    \/ \E fps \in TargetRates :
          /\ ~isRecording
          /\ SetTargetFPS(fps)
          /\ UNCHANGED appVars
    \/ \E dt \in FrameDeltas(RenderRates) :
          /\ isRecording
          /\ Len(UpdateResult(dt).smps) <= MaxTimedFrames
          /\ Update(dt)
          /\ UNCHANGED appVars

SpecTiming == Init /\ [][NextTiming]_vars

\* C1 (as claimed): while a recording runs, the number of recorded samples
\* equals floor(T / timestep), T the exact sum of the deltaTime values passed
\* to update since startRecording, however T is split across the calls.
C1_ExactSampleCount ==
    isRecording => Len(samples) = elapsed \div fixedDelta

\* C1 (amended): while a recording runs, the number of recorded samples is
\* within one of floor(T / timestep): the rounding of the accumulator's sums
\* and differences can add or drop one sample, so two ways of splitting the
\* same T differ by at most one sample.
C1_SampleCountWithinOne ==
    isRecording =>
        /\ Len(samples) - elapsed \div fixedDelta <= 1
        /\ elapsed \div fixedDelta - Len(samples) <= 1

\* several update calls, one of them catching up, have recorded exactly floor(T / timestep) samples
C1_Witness ==
    /\ isRecording
    /\ lastOp = "update"
    /\ Len(samples) >= 3
    /\ accumulator > 0
    /\ Len(samples) = elapsed \div fixedDelta

\* ------------------------------------------------- applyMovingAverage alone
\* One call of applyMovingAverage(data, windowSize) on every array of up to
\* MaxData values and every window size up to MaxWindow + 2.
RECURSIVE SeqsUpTo(_, _)
SeqsUpTo(S, n) ==
    IF n = 0 THEN {<<>>}
    ELSE LET shorter == SeqsUpTo(S, n - 1)
         IN  shorter \cup {Append(q, x) : q \in {t \in shorter : Len(t) = n - 1}, x \in S}

SmoothValues == {R(10), R(20), R(30), R(40)}
SmoothWindows == 0..(MaxWindow + 2)

InitSmooth ==
    /\ InitRecorder
    /\ InitApp
    /\ callArgs \in {Some([data |-> d, windowSize |-> w]) :
                        d \in SeqsUpTo(SmoothValues, MaxData), w \in SmoothWindows}
    /\ callResult = Null

MovingAverageCall ==
    /\ callResult = Null
    /\ callResult' = Some(applyMovingAverage(Val(callArgs).data, Val(callArgs).windowSize))
    /\ lastOp' = "applyMovingAverage"
    /\ UNCHANGED <<recVars, camera, caller, callArgs, elapsed, preSmoothing, passes, discarded,
                   appVars>>

NextSmooth == MovingAverageCall

SpecSmooth == InitSmooth /\ [][NextSmooth]_vars

\* the sum of data over the indices (of the code, from 0) in lo..hi
RECURSIVE SumOver(_, _)
SumOver(data, idx) ==
    IF idx = {} THEN Zero
    ELSE LET j == CHOOSE x \in idx : TRUE
         IN  RAdd(data[j + 1], SumOver(data, idx \ {j}))

\* C10: one pass with window w > 1 gives an array of the same length whose
\* value at index i is the mean of the input at the indices
\* max(0, i - floor(w/2)) .. min(length - 1, i + floor(w/2)), nothing wrapped
\* or padded; window 3 on [10, 20, 30, 40] starts 15, 20.
C10_MovingAverage ==
    (callResult # Null /\ Val(callArgs).windowSize > 1) =>
        LET data == Val(callArgs).data
            w == Val(callArgs).windowSize
            out == Val(callResult)
            n == Len(data)
        IN  /\ Len(out) = n
            /\ \A i \in 0..(n - 1) :
                  LET idx == {j \in 0..(n - 1) : j >= i - w \div 2 /\ j <= i + w \div 2}
                  IN  RMul(out[i + 1], R(Cardinality(idx))) = SumOver(data, idx)
            /\ (data = <<R(10), R(20), R(30), R(40)>> /\ w = 3) =>
                  (out[1] = R(15) /\ out[2] = R(20))

\* window 3 has been applied to [10, 20, 30, 40]
C10_Witness ==
    /\ callResult # Null
    /\ Val(callArgs) = [data |-> <<R(10), R(20), R(30), R(40)>>, windowSize |-> 3]
    /\ Val(callResult) = <<R(15), R(20), R(30), R(35)>>

\* ----------------------------------------------------------------- Exporter
\* An optional field of the options object is Null (absent) or <<value>>.
\* Frame numbers and the cadence are integers; scales and values rationals.

\* data[i] of the code: undefined outside the array, NaN in arithmetic
At(data, i) == IF i >= 0 /\ i < Len(data) THEN data[i + 1] ELSE NaN

\* JavaScript's a % b (the sign of a) and Math.ceil(a / b), for b > 0
JsRem(a, b) == IF a >= 0 THEN a % b ELSE -((-a) % b)
CeilDiv(a, b) == -((-a) \div b)

\* sine and cosine of q quarter turns; the model knows them at whole quarter turns only
Cos(q) == IF IsNaN(q) \/ q[2] # 1 THEN NaN
          ELSE CASE q[1] % 4 = 0 -> R(1) [] q[1] % 4 = 2 -> R(-1) [] OTHER -> R(0)
Sin(q) == IF IsNaN(q) \/ q[2] # 1 THEN NaN
          ELSE CASE q[1] % 4 = 1 -> R(1) [] q[1] % 4 = 3 -> R(-1) [] OTHER -> R(0)

\* radians * (180 / Math.PI), the angle counted in quarter turns
radiansToDegrees(q) == RMul(q, R(90))

mapScaleNegated(v) ==
    LET x == IF v = Null THEN Zero ELSE Val(v)
    IN  IF x = Zero THEN One
        ELSE IF RLess(Zero, x) THEN x
        ELSE RNeg(x)
mapScale(v) ==
    LET x == IF v = Null THEN Zero ELSE Val(v)
    IN  IF x = Zero THEN One
        ELSE IF RLess(Zero, x) THEN x
        ELSE RDiv(One, RNeg(x))

\* the world delta taken for the local one
NotRotated(x, y, z, w) == w

\* new THREE.Matrix4().makeRotationFromEuler(new THREE.Euler(x, y, z, 'YXZ')).invert()
\* applied to the vector w: the transpose of the rotation, times w
InvRotate(x, y, z, w) ==
    LET a == Cos(x)  b == Sin(x)
        c == Cos(y)  d == Sin(y)
        e == Cos(z)  f == Sin(z)
        ce == RMul(c, e)  cf == RMul(c, f)
        de == RMul(d, e)  df == RMul(d, f)
        te0 == RAdd(ce, RMul(df, b))
        te4 == RSub(RMul(de, b), cf)
        te8 == RMul(a, d)
        te1 == RMul(a, f)
        te5 == RMul(a, e)
        te9 == RNeg(b)
        te2 == RSub(RMul(cf, b), de)
        te6 == RAdd(df, RMul(ce, b))
        te10 == RMul(a, c)
    IN  [x |-> RAdd(RAdd(RMul(te0, w.x), RMul(te1, w.y)), RMul(te2, w.z)),
         y |-> RAdd(RAdd(RMul(te4, w.x), RMul(te5, w.y)), RMul(te6, w.z)),
         z |-> RAdd(RAdd(RMul(te8, w.x), RMul(te9, w.y)), RMul(te10, w.z))]

\* Map.set, Map.has
MapSet(m, k, v) == [x \in DOMAIN m \cup {k} |-> IF x = k THEN v ELSE m[x]]
MapHas(m, k) == k \in DOMAIN m
EmptyMap == <<>>

CadenceAbove1(o) == o.cadence # Null /\ Val(o.cadence) > 1
CadenceAtMost1(o) == o.cadence # Null /\ Val(o.cadence) <= 1

startFrameForCadenceFloor(o) ==
    IF CadenceAbove1(o)
    THEN (o.frameStart \div Val(o.cadence)) * Val(o.cadence)
    ELSE o.frameStart
startFrameForCadence(o) ==
    IF CadenceAbove1(o)
    THEN CeilDiv(o.frameStart, Val(o.cadence)) * Val(o.cadence)
    ELSE o.frameStart

actualFrameEndShort(arrays, o) == Min(o.frameEnd, Len(arrays.translation_x)) - 1
actualFrameEnd(arrays, o) == Min(o.frameEnd, Len(arrays.translation_x) - 1)

\* the state of generateSchedules' loop before any frame
LoopStart(o) ==
    [initializedLocal |-> FALSE, prevKeyFrame |-> startFrameForCadence(o),
     translationX |-> EmptyMap, translationY |-> EmptyMap, translationZ |-> EmptyMap,
     rotationX |-> EmptyMap, rotationY |-> EmptyMap, rotationZ |-> EmptyMap]

\* the translation branch of the loop body (lines 82-111)
TranslationStep(arrays, o, frame, st) ==
    IF ~st.initializedLocal
    THEN [st EXCEPT !.translationX = MapSet(@, frame, Zero),
                    !.translationY = MapSet(@, frame, Zero),
                    !.translationZ = MapSet(@, frame, Zero),
                    !.initializedLocal = TRUE,
                    !.prevKeyFrame = frame]
    ELSE LET prev == st.prevKeyFrame
             worldDelta ==
                [x |-> RSub(At(arrays.translation_x, frame), At(arrays.translation_x, prev)),
                 y |-> RSub(At(arrays.translation_y, frame), At(arrays.translation_y, prev)),
                 z |-> RSub(At(arrays.translation_z, frame), At(arrays.translation_z, prev))]
             localDelta ==
                InvRotate(At(arrays.rotation_3d_x, prev), At(arrays.rotation_3d_y, prev),
                          At(arrays.rotation_3d_z, prev), worldDelta)
             translateFactor == mapScale(o.masterScaleTranslate)
         IN  [st EXCEPT
                !.translationX = MapSet(@, frame,
                    RMul(translateFactor, RMul(localDelta.x, o.axisScaleX))),
                !.translationY = MapSet(@, frame,
                    RMul(translateFactor, RMul(RNeg(localDelta.y), o.axisScaleY))),
                !.translationZ = MapSet(@, frame,
                    RMul(translateFactor, RMul(RNeg(localDelta.z), o.axisScaleZ)))]

RotationScale == Frac(1, 10)      \* the 0.1 of lines 126-128

SetRotation(st, frame, x, y, z) ==
    [st EXCEPT !.rotationX = MapSet(@, frame, x),
               !.rotationY = MapSet(@, frame, y),
               !.rotationZ = MapSet(@, frame, z)]

AdvanceKeyNever(st, frame) == st
AdvanceKey(st, frame) ==
    IF st.initializedLocal THEN [st EXCEPT !.prevKeyFrame = frame] ELSE st

\* a rotation branch that writes the scaled angle of the frame itself
RotationStepAbsolute(arrays, o, frame, st) ==
    LET rotateFactor == mapScale(o.masterScaleRotate)
    IN  AdvanceKey(
            SetRotation(st, frame,
                RMul(rotateFactor,
                     RMul(RNeg(radiansToDegrees(At(arrays.rotation_3d_x, frame))), RotationScale)),
                RMul(rotateFactor,
                     RMul(RNeg(radiansToDegrees(At(arrays.rotation_3d_y, frame))), RotationScale)),
                RMul(rotateFactor,
                     RMul(radiansToDegrees(At(arrays.rotation_3d_z, frame)), RotationScale))),
            frame)

\* the rotation branch of the loop body (lines 118-129) and the advance of
\* prevKeyFrame (lines 132-134)
RotationStep(arrays, o, frame, st) ==
    LET prev == st.prevKeyFrame
        rotateFactor == mapScale(o.masterScaleRotate)
        drx == RSub(At(arrays.rotation_3d_x, frame), At(arrays.rotation_3d_x, prev))
        dry == RSub(At(arrays.rotation_3d_y, frame), At(arrays.rotation_3d_y, prev))
        drz == RSub(At(arrays.rotation_3d_z, frame), At(arrays.rotation_3d_z, prev))
    IN  AdvanceKey(
            IF frame = startFrameForCadence(o)
            THEN SetRotation(st, frame, Zero, Zero, Zero)
            ELSE SetRotation(st, frame,
                    RMul(rotateFactor, RMul(RNeg(radiansToDegrees(drx)), RotationScale)),
                    RMul(rotateFactor, RMul(RNeg(radiansToDegrees(dry)), RotationScale)),
                    RMul(rotateFactor, RMul(radiansToDegrees(drz), RotationScale))),
            frame)

\* for (frame = startFrameForCadence; frame <= actualFrameEnd; frame += frameStep)
RECURSIVE KeyframeLoop(_, _, _, _)
KeyframeLoop(arrays, o, frame, st) ==
    IF frame > actualFrameEnd(arrays, o) THEN st
    ELSE IF frame >= Len(arrays.translation_x) THEN st
    ELSE IF CadenceAbove1(o) /\ JsRem(frame, Val(o.cadence)) # 0
         THEN KeyframeLoop(arrays, o, frame + o.frameStep, st)
    ELSE KeyframeLoop(arrays, o, frame + o.frameStep,
            RotationStep(arrays, o, frame, TranslationStep(arrays, o, frame, st)))

\* addEmptyFrames
RECURSIVE addEmptyFrames(_, _, _, _)
addEmptyFrames(frameMap, frame, frameEnd, frameStep) ==
    IF frame > frameEnd THEN frameMap
    ELSE addEmptyFrames(IF MapHas(frameMap, frame) THEN frameMap
                        ELSE MapSet(frameMap, frame, Zero),
                        frame + frameStep, frameEnd, frameStep)

\* if (includeEmptyFrames && cadence <= 1) addEmptyFrames(...)
BackfillAnyCadence(frameMap, arrays, o) ==
    IF o.includeEmptyFrames
    THEN addEmptyFrames(frameMap, o.frameStart, actualFrameEnd(arrays, o), o.frameStep)
    ELSE frameMap
Backfill(frameMap, arrays, o) ==
    IF o.includeEmptyFrames /\ CadenceAtMost1(o)
    THEN addEmptyFrames(frameMap, o.frameStart, actualFrameEnd(arrays, o), o.frameStep)
    ELSE frameMap

\* the pieces of a schedule string: `${frame}:(${value})` and ', '
EntryText(entry) == <<"frame:(value)", entry[1], entry[2]>>
Separator == <<", ">>

\* Array.prototype.join: the texts with the separator between neighbours
RECURSIVE join(_, _)
join(texts, separator) ==
    IF Len(texts) = 0 THEN <<>>
    ELSE IF Len(texts) = 1 THEN <<texts[1]>>
    ELSE join(SubSeq(texts, 1, Len(texts) - 1), separator)
            \o <<separator, texts[Len(texts)]>>

\* the string buildScheduleString returns for its sorted entries
ScheduleText(entries) ==
    join([i \in DOMAIN entries |-> EntryText(entries[i])], Separator)

RECURSIVE buildScheduleStringDescending(_)
buildScheduleStringDescending(frameValueMap) ==
    IF DOMAIN frameValueMap = {} THEN <<>>
    ELSE LET first == CHOOSE k \in DOMAIN frameValueMap :
                         \A j \in DOMAIN frameValueMap : j <= k
         IN  <<<<first, frameValueMap[first]>>>>
                \o buildScheduleStringDescending(
                        [k \in DOMAIN frameValueMap \ {first} |-> frameValueMap[k]])

\* buildScheduleString: the entries frame:(value) in ascending frame order,
\* as the sequence of <<frame, value>> the string spells out
RECURSIVE buildScheduleString(_)
buildScheduleString(frameValueMap) ==
    IF DOMAIN frameValueMap = {} THEN <<>>
    ELSE LET last == CHOOSE k \in DOMAIN frameValueMap :
                        \A j \in DOMAIN frameValueMap : j <= k
         IN  Append(buildScheduleString(
                        [k \in DOMAIN frameValueMap \ {last} |-> frameValueMap[k]]),
                    <<last, frameValueMap[last]>>)

generateSchedules(arrays, o) ==
    LET st == KeyframeLoop(arrays, o, startFrameForCadence(o), LoopStart(o))
    IN  [translation_x |-> buildScheduleString(Backfill(st.translationX, arrays, o)),
         translation_y |-> buildScheduleString(Backfill(st.translationY, arrays, o)),
         translation_z |-> buildScheduleString(Backfill(st.translationZ, arrays, o)),
         rotation_3d_x |-> buildScheduleString(Backfill(st.rotationX, arrays, o)),
         rotation_3d_y |-> buildScheduleString(Backfill(st.rotationY, arrays, o)),
         rotation_3d_z |-> buildScheduleString(Backfill(st.rotationZ, arrays, o))]

\* getDefaultOptions(totalFrames)
getDefaultOptions(totalFrames) ==
    [frameStart |-> 0, frameEnd |-> Max(0, totalFrames - 1), frameStep |-> 1,
     axisScaleX |-> One, axisScaleY |-> One, axisScaleZ |-> One,
     includeEmptyFrames |-> TRUE, preferAngleOverLens |-> TRUE,
     cadence |-> Some(4), masterScaleTranslate |-> Some(R(10)),
     masterScaleRotate |-> Some(Frac(3, 2))]

\* --------------------------------------------------- generateSchedules alone
\* One call of generateSchedules(channelArrays, options) on recordings of up
\* to MaxExportFrames frames and a grid of export options.
ExportKinds == {"slide", "turn"}

\* the camera's viewing direction (local -z) at yaw q quarter turns, level
Forward(q) == [x |-> RNeg(Sin(q)), y |-> Zero, z |-> RNeg(Cos(q))]

\* where a camera is after i frames when it moves one unit along its viewing
\* direction and then yaws by a quarter turn, frame after frame
RECURSIVE ForwardPath(_)
ForwardPath(i) ==
    IF i <= 0 THEN [x |-> Zero, y |-> Zero, z |-> Zero]
    ELSE The({[x |-> RAdd(before.x, Forward(R(i - 1)).x),
               y |-> Zero,
               z |-> RAdd(before.z, Forward(R(i - 1)).z)]
              : before \in {ForwardPath(i - 1)}})

\* frame i of a recording: "slide" moves 0.1 along x per frame without
\* turning, "drift" moves on all axes without turning, "forward" moves along
\* the viewing direction and yaws by a quarter turn per frame, "turn" moves
\* on all axes while turning by quarter turns
ExportSample(kind, i) ==
    IF kind = "slide"
    THEN [translation_x |-> Frac(i, 10), translation_y |-> Zero, translation_z |-> Zero,
          rotation_3d_x |-> Zero, rotation_3d_y |-> Zero, rotation_3d_z |-> Zero, fov |-> R(70)]
    ELSE IF kind = "drift"
    THEN [translation_x |-> R(i * i), translation_y |-> R(i), translation_z |-> R(-2 * i),
          rotation_3d_x |-> Zero, rotation_3d_y |-> Zero, rotation_3d_z |-> Zero, fov |-> R(70)]
    ELSE IF kind = "forward"
    THEN [translation_x |-> ForwardPath(i).x, translation_y |-> Zero,
          translation_z |-> ForwardPath(i).z,
          rotation_3d_x |-> Zero, rotation_3d_y |-> R(i), rotation_3d_z |-> Zero, fov |-> R(70)]
    ELSE [translation_x |-> R(i * i), translation_y |-> R(i), translation_z |-> R(-2 * i),
          rotation_3d_x |-> R((i + 1) % 4), rotation_3d_y |-> R(i + 1),
          rotation_3d_z |-> R(i % 2), fov |-> R(70)]

ExportArrays(kind, n) == [c \in Channels |-> [i \in 1..n |-> ExportSample(kind, i - 1)[c]]]

MasterScales ==
    {<<Null, Null>>, <<Some(Zero), Some(Zero)>>, <<Some(One), Some(One)>>,
     <<Some(R(5)), Some(R(-4))>>,
     <<Some(R(-4)), Some(R(5))>>, <<Some(R(10)), Some(Frac(3, 2))>>}
AxisScales == {<<One, One, One>>, <<R(2), Frac(1, 2), R(3)>>}

ExportOptions ==
    {[frameStart |-> fs, frameEnd |-> fe, frameStep |-> step,
      axisScaleX |-> ax[1], axisScaleY |-> ax[2], axisScaleZ |-> ax[3],
      includeEmptyFrames |-> inc, preferAngleOverLens |-> TRUE,
      cadence |-> cad, masterScaleTranslate |-> ms[1], masterScaleRotate |-> ms[2]] :
        fs \in {-1, 0, 2, 5}, fe \in {2, 5, 12}, step \in {1, 2}, ax \in AxisScales,
        inc \in BOOLEAN, cad \in {Null, Some(1), Some(2), Some(4)}, ms \in MasterScales}

InitExport ==
    /\ InitRecorder
    /\ InitApp
    /\ callArgs \in {Some([channelArrays |-> ExportArrays(kind, n), options |-> o]) :
                        kind \in ExportKinds, n \in 0..MaxExportFrames, o \in ExportOptions}
    /\ callResult = Null

GenerateSchedulesCall ==
    /\ callResult = Null
    /\ callResult' = Some(generateSchedules(Val(callArgs).channelArrays, Val(callArgs).options))
    /\ lastOp' = "generateSchedules"
    /\ UNCHANGED <<recVars, camera, caller, callArgs, elapsed, preSmoothing, passes, discarded,
                   appVars>>

NextExport == GenerateSchedulesCall

SpecExport == InitExport /\ [][NextExport]_vars

ScheduleChannels == {"translation_x", "translation_y", "translation_z",
                     "rotation_3d_x", "rotation_3d_y", "rotation_3d_z"}

\* the frames a schedule has an entry for
FramesOf(schedule) == {schedule[i][1] : i \in DOMAIN schedule}

Exported == callResult # Null /\ lastOp = "generateSchedules"
ExportedArrays == Val(callArgs).channelArrays
ExportedOptions == Val(callArgs).options
\* the last frame of the export window: min(frameEnd, totalFrames - 1)
WindowEnd == Min(ExportedOptions.frameEnd, Len(ExportedArrays.translation_x) - 1)

\* C5: whenever an export emits at least one keyframe, the value at the first
\* emitted frame is exactly 0 in all six schedules, whatever the recording,
\* frameStart, frameStep, cadence and scales.
C5_FirstKeyframeZero ==
    Exported =>
        \A c \in ScheduleChannels :
            Len(Val(callResult)[c]) > 0 => Val(callResult)[c][1][2] = Zero

\* a turning recording exported from frame 2 with cadence 4: the first entry
\* is frame 4 with value 0 although the camera is turned there, and the
\* next entry is not 0
C5_Witness ==
    /\ Exported
    /\ ExportedArrays = ExportArrays("turn", MaxExportFrames)
    /\ ExportedOptions.frameStart = 2
    /\ ExportedOptions.cadence = Some(4)
    /\ \A c \in ScheduleChannels :
          /\ Len(Val(callResult)[c]) = 2
          /\ Val(callResult)[c][1] = <<4, Zero>>
    /\ Val(callResult).rotation_3d_y[2][2] # Zero
    /\ Val(callResult).translation_x[2][2] # Zero

\* the smallest multiple of cadence that is >= frameStart
FirstMultiple(frameStart, cadence) ==
    CHOOSE m \in frameStart..(frameStart + cadence - 1) : m % cadence = 0

\* C6: with cadence > 1 the first exported frame is the smallest multiple of
\* cadence >= frameStart, every exported frame is a multiple of cadence
\* within [frameStart, min(frameEnd, totalFrames - 1)], and cadence 4 from
\* frame 0 with step 1 over 10 frames exports exactly the frames {0, 4, 8}.
C6_CadenceFiltering ==
    (Exported /\ CadenceAbove1(ExportedOptions)) =>
        LET o == ExportedOptions
            cadence == Val(o.cadence)
            first == FirstMultiple(o.frameStart, cadence)
        IN  \A c \in ScheduleChannels :
                LET frames == FramesOf(Val(callResult)[c])
                IN  /\ \A f \in frames :
                          f % cadence = 0 /\ f >= o.frameStart /\ f <= WindowEnd
                    /\ (frames # {}) = (first <= WindowEnd)
                    /\ frames # {} => Val(callResult)[c][1][1] = first
                    /\ (cadence = 4 /\ o.frameStart = 0 /\ o.frameStep = 1
                            /\ WindowEnd = 9) => frames = {0, 4, 8}

\* the 10-frame example, and an export whose first frame lies after frameStart
C6_Witness ==
    /\ Exported
    /\ Len(ExportedArrays.translation_x) = 10
    /\ ExportedOptions.cadence = Some(4)
    /\ ExportedOptions.frameStart = 0
    /\ ExportedOptions.frameStep = 1
    /\ ExportedOptions.frameEnd >= 9
    /\ FramesOf(Val(callResult).translation_x) = {0, 4, 8}
    /\ FramesOf(Val(callResult).rotation_3d_z) = {0, 4, 8}

\* C7: with includeEmptyFrames and cadence > 1 the schedules have entries at
\* multiples of cadence only, nothing filled in between (cadence 4 over
\* frames [0, 5] gives entries exactly at {0, 4}); with cadence <= 1 and
\* frameStep 1 every frame of the window has an entry ([0, 5] gives 0..5).
C7_BackfillGating ==
    (Exported /\ ExportedOptions.includeEmptyFrames) =>
        LET o == ExportedOptions
        IN  \A c \in ScheduleChannels :
                LET frames == FramesOf(Val(callResult)[c])
                IN  /\ CadenceAbove1(o) =>
                          /\ \A f \in frames : f % Val(o.cadence) = 0
                          /\ (Val(o.cadence) = 4 /\ o.frameStart = 0
                                /\ o.frameStep = 1 /\ WindowEnd = 5) => frames = {0, 4}
                    /\ (CadenceAtMost1(o) /\ o.frameStep = 1) =>
                          /\ frames = o.frameStart..WindowEnd
                          /\ (o.frameStart = 0 /\ WindowEnd = 5) => frames = 0..5

\* includeEmptyFrames with cadence 4 over the frames [0, 5]: entries at 0 and 4
C7_Witness ==
    /\ Exported
    /\ ExportedOptions.includeEmptyFrames
    /\ ExportedOptions.cadence = Some(4)
    /\ ExportedOptions.frameStart = 0
    /\ ExportedOptions.frameStep = 1
    /\ WindowEnd = 5
    /\ \A c \in ScheduleChannels : FramesOf(Val(callResult)[c]) = {0, 4}

\* three samples recorded at 30 fps while the camera slides 0.1 per frame
\* along x without turning, as stopRecording lays them out
SlideRecording ==
    ArraysOf([i \in 1..3 |->
                NewSample([px |-> Frac(i - 1, 10), py |-> Zero, pz |-> Zero,
                           rx |-> Zero, ry |-> Zero, rz |-> Zero, fov |-> R(70)],
                          i - 1, FlRecip(InitialRate))])

\* frame 0 -> 0, frame 1 -> 0.1, frame 2 -> 0.1
SlideSchedule == <<<<0, Zero>>, <<1, Frac(1, 10)>>, <<2, Frac(1, 10)>>>>

\* C8 as stated: exporting the three-sample slide with the options of
\* getDefaultOptions gives translation_x the entries 0 -> 0, 1 -> 0.1, 2 -> 0.1.
C8_DefaultOptionsScenario ==
    (Exported /\ ExportedArrays = SlideRecording
        /\ ExportedOptions = getDefaultOptions(Len(SlideRecording.translation_x))) =>
            Val(callResult).translation_x = SlideSchedule

\* C8: exporting the three-sample slide with the options of getDefaultOptions
\* changed to cadence 1 and master scales 1 gives translation_x the entries
\* 0 -> 0, 1 -> 0.1, 2 -> 0.1; with the unchanged options of getDefaultOptions
\* (cadence 4) translation_x has the single entry 0 -> 0.
C8_UnitOptionsScenario ==
    (Exported /\ ExportedArrays = SlideRecording) =>
        LET defaults == getDefaultOptions(Len(SlideRecording.translation_x))
        IN  /\ ExportedOptions = [defaults EXCEPT !.cadence = Some(1),
                                                  !.masterScaleTranslate = Some(One),
                                                  !.masterScaleRotate = Some(One)]
                  => Val(callResult).translation_x = SlideSchedule
            /\ ExportedOptions = defaults
                  => Val(callResult).translation_x = <<<<0, Zero>>>>

\* the slide has been exported over frames 0..2 with cadence 1 and master scales 1
C8_Witness ==
    /\ Exported
    /\ ExportedArrays = SlideRecording
    /\ ExportedOptions.frameStart = 0 /\ ExportedOptions.frameEnd = 2
    /\ ExportedOptions.frameStep = 1 /\ ExportedOptions.axisScaleX = One
    /\ ExportedOptions.includeEmptyFrames
    /\ ExportedOptions.cadence = Some(1)
    /\ ExportedOptions.masterScaleTranslate = Some(One)
    /\ Val(callResult).translation_x = SlideSchedule

\* the factor C9 gives a master scale
ClaimedFactor(v) ==
    IF v = Null THEN One
    ELSE IF Val(v) = Zero THEN One
    ELSE IF RLess(Zero, Val(v)) THEN Val(v)
    ELSE RDiv(One, RNeg(Val(v)))

\* C9: every exported translation (rotation) value is the value exported
\* with master scale 0 times a factor that is 1 when masterScaleTranslate
\* (masterScaleRotate) is 0 or absent, v when it is a positive v and 1/(-v)
\* when it is a negative v: 5 multiplies by 5, -4 by 1/4.
C9_MasterScaleMapping ==
    Exported =>
        LET o == ExportedOptions
            unscaled == generateSchedules(ExportedArrays,
                            [o EXCEPT !.masterScaleTranslate = Some(Zero),
                                      !.masterScaleRotate = Some(Zero)])
            master(c) == IF c \in {"translation_x", "translation_y", "translation_z"}
                         THEN o.masterScaleTranslate ELSE o.masterScaleRotate
        IN  \A c \in ScheduleChannels :
                LET out == Val(callResult)[c]
                IN  /\ Len(out) = Len(unscaled[c])
                    /\ \A i \in DOMAIN out :
                          /\ out[i][1] = unscaled[c][i][1]
                          /\ out[i][2] = RMul(ClaimedFactor(master(c)), unscaled[c][i][2])
                          /\ master(c) = Some(R(5)) =>
                                out[i][2] = RMul(R(5), unscaled[c][i][2])
                          /\ master(c) = Some(R(-4)) =>
                                out[i][2] = RMul(Frac(1, 4), unscaled[c][i][2])

\* a moving, turning recording exported with masterScaleTranslate 5 and
\* masterScaleRotate -4
C9_Witness ==
    /\ Exported
    /\ ExportedArrays = ExportArrays("turn", 6)
    /\ ExportedOptions.masterScaleTranslate = Some(R(5))
    /\ ExportedOptions.masterScaleRotate = Some(R(-4))
    /\ Len(Val(callResult).translation_x) >= 2
    /\ Val(callResult).translation_x[2][2] # Zero
    /\ Val(callResult).rotation_3d_y[2][2] # Zero
    /\ ~IsNaN(Val(callResult).translation_x[2][2])

\* ------------------------------------------------------------------ Playback
\* The Playback driver's methods as functions of its fields pb and of what it
\* reads from the Recorder: the samples (getTotalFrames) and the channel
\* arrays (getCameraStateAtFrame).

\* Recorder.getCameraStateAtFrame
\* the rotation-composition order of the THREE.Euler each part of the program builds
PilotOrder == "YXZ"        \* camera.rotation.set(pitch, yaw, 0, 'YXZ')
ExportOrder == "YXZ"       \* prevEuler
PlaybackOrder == "XYZ"     \* the rotation getCameraStateAtFrame returns

getCameraStateAtFrame(arrays, frame) ==
    IF arrays = Null THEN Null
    ELSE IF frame < 0 \/ frame >= Len(Val(arrays).translation_x) THEN Null
    ELSE Some([position |-> <<Val(arrays).translation_x[frame + 1],
                              Val(arrays).translation_y[frame + 1],
                              Val(arrays).translation_z[frame + 1]>>,
               rotation |-> <<Val(arrays).rotation_3d_x[frame + 1],
                              Val(arrays).rotation_3d_y[frame + 1],
                              Val(arrays).rotation_3d_z[frame + 1]>>,
               order |-> PlaybackOrder,
               fov |-> Val(arrays).fov[frame + 1]])

\* Playback.setTargetFPS
playbackSetTargetFPS(pb, fps) == [pb EXCEPT !.fixedDelta = FlRecip(fps)]

\* Playback.startPlayback
startPlaybackUnchecked(pb, smps) ==
    [pb EXCEPT !.isPlaying = TRUE, !.isPaused = FALSE, !.currentFrame = 0, !.accumulator = 0]
startPlayback(pb, smps) ==
    IF Len(smps) = 0 THEN pb
    ELSE [pb EXCEPT !.isPlaying = TRUE, !.isPaused = FALSE,
                    !.currentFrame = 0, !.accumulator = 0]

\* Playback.stopPlayback, pausePlayback, resumePlayback
stopPlayback(pb) == [pb EXCEPT !.isPlaying = FALSE, !.isPaused = FALSE, !.currentFrame = 0]
pausePlayback(pb) == [pb EXCEPT !.isPaused = TRUE]
resumePlayback(pb) == [pb EXCEPT !.isPaused = FALSE]

\* Playback.updateFrame: can the driver advance, i.e. is there a frame left
\* and a camera state for it
updateFrameWrapping(pb, smps, arrays) == TRUE
updateFrame(pb, smps, arrays) ==
    /\ pb.currentFrame < Len(smps)
    /\ getCameraStateAtFrame(arrays, pb.currentFrame) # Null

\* Playback.update's loop:
\* while (accumulator >= fixedDelta) { accumulator -= fixedDelta;
\*     if (!updateFrame()) { stopPlayback(); return false; } }  return true
RECURSIVE PlaybackLoop(_, _, _)
PlaybackLoop(pb0, smps, arrays) ==
    The({IF pb.accumulator >= pb.fixedDelta
         THEN The({IF updateFrame(stepped, smps, arrays)
                   THEN PlaybackLoop([stepped EXCEPT !.currentFrame = @ + 1],
                                     smps, arrays)
                   ELSE [pb |-> stopPlayback(stepped), returned |-> FALSE]
                   : stepped \in {[pb EXCEPT !.accumulator = Fl(@ - pb.fixedDelta)]}})
         ELSE [pb |-> pb, returned |-> TRUE]
         : pb \in {pb0}})

\* Playback.update
playbackUpdate(pb, deltaTime, smps, arrays) ==
    IF ~pb.isPlaying \/ pb.isPaused
    THEN [pb |-> pb, returned |-> FALSE]
    ELSE PlaybackLoop([pb EXCEPT !.accumulator = Fl(@ + deltaTime)], smps, arrays)

\* Playback.getCurrentCameraState
getCurrentCameraStateAnytime(pb, smps, arrays) ==
    getCameraStateAtFrame(arrays, pb.currentFrame - 1)
getCurrentCameraState(pb, smps, arrays) ==
    IF ~pb.isPlaying \/ pb.currentFrame >= Len(smps) THEN Null
    ELSE getCameraStateAtFrame(arrays, pb.currentFrame - 1)

\* Playback.seekToFrame
seekToFrame(pb, frame, smps) ==
    [pb EXCEPT !.currentFrame = Max(0, Min(frame, Len(smps) - 1))]

\* ----------------------------------------------------------------------- App
\* App's recording, playback, frame and export handlers over the Recorder,
\* the Playback driver and the React state ui (the smoothing and rate handlers
\* only forward to the Recorder methods studied above). A handler reads the
\* ui state of the latest render. The camera
\* way-point is what the pilot steers; the pose Pilot.setCameraState is given
\* during playback is kept in presented.

\* history: the channel arrays as they are after a step, or as they last were
StoppedAfter(arrays) == IF arrays # Null THEN arrays ELSE stoppedArrays

\* handleStartRecording's condition: recorderRef.current && !isPlaying
CanStartRecordingAnytime == TRUE
CanStartRecording == ~ui.isPlaying

\* handleStartPlayback's condition: playbackRef.current && !isRecording && totalFrames > 0
CanStartPlayback == ~ui.isRecording /\ ui.totalFrames > 0

HandleStartRecording ==
    /\ CanStartRecording
    /\ StartRecording
    /\ ui' = [ui EXCEPT !.isRecording = TRUE, !.currentFrame = 0]
    /\ thrown' = Null
    /\ UNCHANGED <<playback, updateCall, presented, stoppedArrays, loop>>

HandleStopRecording ==
    /\ StopRecording
    /\ ui' = [ui EXCEPT !.isRecording = FALSE, !.totalFrames = Len(samples)]
    /\ thrown' = Null
    /\ stoppedArrays' = StoppedAfter(channelArrays')
    /\ UNCHANGED <<playback, updateCall, presented, loop>>

HandleStartPlayback ==
    /\ CanStartPlayback
    /\ playback' = startPlayback(playback, samples)
    /\ ui' = [ui EXCEPT !.isPlaying = TRUE, !.currentFrame = 0]
    /\ thrown' = Null
    /\ lastOp' = "startPlayback"
    /\ UNCHANGED <<recVars, camera, caller, callVars, elapsed, preSmoothing, passes,
                   discarded, updateCall, presented, stoppedArrays, loop>>

HandleStopPlayback ==
    /\ playback' = stopPlayback(playback)
    /\ ui' = [ui EXCEPT !.isPlaying = FALSE, !.currentFrame = 0]
    /\ thrown' = Null
    /\ lastOp' = "stopPlayback"
    /\ UNCHANGED <<recVars, camera, caller, callVars, elapsed, preSmoothing, passes,
                   discarded, updateCall, presented, stoppedArrays, loop>>

\* handleFrame's steps in order: pilot.update, recorder.update, and under
\* ui.isPlaying playback.update followed by getCurrentCameraState
FrameResult(deltaTime, cam) ==
    The({
    LET play == The({playbackUpdate(playback, deltaTime, rec.smps, channelArrays)})
    IN  [rec |-> rec,
         pb |-> IF ui.isPlaying THEN play.pb ELSE playback,
         call |-> IF ui.isPlaying
                  THEN Some([deltaTime |-> deltaTime, returned |-> play.returned])
                  ELSE Null,
         state |-> IF ui.isPlaying /\ play.returned
                   THEN getCurrentCameraState(play.pb, rec.smps, channelArrays)
                   ELSE Null]
    : rec \in {IF isRecording
               THEN RecordLoop(Fl(accumulator + deltaTime), currentFrame, samples,
                               Pose(cam), fixedDelta)
               ELSE [acc |-> accumulator, frame |-> currentFrame, smps |-> samples]}})

HandleFrame(deltaTime, cam) ==
    \E r \in {FrameResult(deltaTime, cam)} :
        /\ camera' = cam
        /\ accumulator' = r.rec.acc
        /\ currentFrame' = r.rec.frame
        /\ samples' = r.rec.smps
        /\ elapsed' = IF isRecording THEN elapsed + deltaTime ELSE elapsed
        /\ playback' = r.pb
        /\ updateCall' = r.call
        /\ presented' = r.state
        /\ ui' = [ui EXCEPT
                    !.isPlaying = IF r.call # Null /\ ~Val(r.call).returned THEN FALSE ELSE @,
                    !.currentFrame = IF r.call = Null THEN @
                                     ELSE IF ~Val(r.call).returned THEN 0
                                     ELSE r.pb.currentFrame,
                    !.totalFrames = Len(r.rec.smps)]
        /\ thrown' = Null
        /\ lastOp' = "handleFrame"
        /\ UNCHANGED <<channelArrays, originalChannelArrays, isRecording, fixedDelta,
                       caller, callVars, preSmoothing, passes, discarded, stoppedArrays, loop>>

NoRecordedData == "No recorded data available for export"

\* handleExportSchedules: generateSchedules on getChannelArrays(), or the Error
ExportOutcomeOfEmpty(arrays, options) ==
    [thrown |-> Null,
     args |-> Some([channelArrays |-> IF arrays = Null THEN ArraysOf(<<>>) ELSE Val(arrays),
                    options |-> options]),
     schedules |-> Some(generateSchedules(IF arrays = Null THEN ArraysOf(<<>>)
                                          ELSE Val(arrays), options))]
ExportOutcome(arrays, options) ==
    IF arrays # Null
    THEN [thrown |-> Null,
          args |-> Some([channelArrays |-> Val(arrays), options |-> options]),
          schedules |-> Some(generateSchedules(Val(arrays), options))]
    ELSE [thrown |-> Some(NoRecordedData), args |-> Null, schedules |-> Null]

HandleExportSchedules(options) ==
    /\ thrown' = ExportOutcome(channelArrays, options).thrown
    /\ callArgs' = ExportOutcome(channelArrays, options).args
    /\ callResult' = ExportOutcome(channelArrays, options).schedules
    /\ lastOp' = "exportSchedules"
    /\ UNCHANGED <<recVars, camera, caller, elapsed, preSmoothing, passes, discarded,
                   playback, ui, updateCall, presented, stoppedArrays, loop>>

\* ControlsPanel's exportOptions state: its initial value, with frameEnd set
\* to the last frame whenever totalFrames changes; nothing else is ever set
PanelExportOptions ==
    [frameStart |-> 0, frameEnd |-> Max(0, ui.totalFrames - 1), frameStep |-> 1,
     axisScaleX |-> One, axisScaleY |-> One, axisScaleZ |-> One,
     includeEmptyFrames |-> TRUE, preferAngleOverLens |-> TRUE,
     cadence |-> Null, masterScaleTranslate |-> Null, masterScaleRotate |-> Null]

\* the options handleExportSchedules is called with: the panel's, and options
\* options with a start or an end out of range
AppExportOptions ==
    {PanelExportOptions,
     [PanelExportOptions EXCEPT !.frameStart = -1],
     [PanelExportOptions EXCEPT !.frameEnd = MaxAppFrames + 5]}

\* the frame intervals of the render loop
AppRates == {15, InitialRate}

NextApp ==
    \/ HandleStartRecording
    \/ HandleStopRecording
    \/ HandleStartPlayback
    \/ HandleStopPlayback
    \/ \E dt \in FrameDeltas(AppRates), cam \in {camera, Min(camera + 1, NumPoses)} :
          /\ Len(FrameResult(dt, cam).rec.smps) <= MaxAppFrames
          /\ HandleFrame(dt, cam)
    \/ \E options \in AppExportOptions : HandleExportSchedules(options)

SpecApp == Init /\ [][NextApp]_vars

\* C11: in no reachable state is the Recorder armed while the Playback
\* driver is playing, whatever the order of the handlers and frame ticks.
C11_MutualExclusion == ~(isRecording /\ playback.isPlaying)

\* a recording is being played back, its first frame behind it
C11_Witness ==
    /\ playback.isPlaying
    /\ ui.isPlaying
    /\ ~isRecording
    /\ playback.currentFrame >= 1
    /\ Len(samples) = MaxAppFrames

\* C12 (as claimed): an export invoked while a recording is in progress, an
\* earlier recording having been stopped with data, yields the schedules of
\* the channel arrays of that stopped recording.
C12_ExportOfLastStopped ==
    (lastOp = "exportSchedules" /\ isRecording /\ stoppedArrays # Null) =>
        /\ thrown = Null
        /\ callResult # Null
        /\ Val(callArgs).channelArrays = Val(stoppedArrays)

\* C13: an export with no recorded sample (never recorded, or the recording
\* stopped with zero samples) throws the no-data Error, yields no schedules
\* and leaves the Recorder's samples, channel arrays and baseline unchanged.
C13_NoDataRejected ==
    [][(lastOp' = "exportSchedules" /\ Len(samples) = 0) =>
          /\ thrown' = Some(NoRecordedData)
          /\ callResult' = Null
          /\ UNCHANGED <<samples, channelArrays, originalChannelArrays>>]_vars

\* an export has been rejected after a recording with data was followed by
\* one that was stopped with zero samples
C13_Witness ==
    /\ lastOp = "exportSchedules"
    /\ thrown = Some(NoRecordedData)
    /\ callResult = Null
    /\ ~isRecording
    /\ Len(samples) = 0
    /\ stoppedArrays # Null

\* ------------------------------------------- Playback driven method by method
\* The Playback driver and its Recorder with every public method called in any
\* order, without App's conditions.

\* a Playback method has run: the fields it assigned, what update returned
\* (call: its deltaTime and result) and what getCurrentCameraState returned (state)
PlaybackStepResetting(op, pb, call, state) ==
    /\ playback' = pb
    /\ updateCall' = call
    /\ presented' = state
    /\ lastOp' = op
    /\ samples' = <<>>
    /\ channelArrays' = Null
    /\ UNCHANGED <<originalChannelArrays, isRecording, currentFrame, accumulator, fixedDelta,
                   camera, caller, callVars, elapsed, preSmoothing, passes, discarded,
                   ui, thrown, stoppedArrays, loop>>
PlaybackStep(op, pb, call, state) ==
    /\ playback' = pb
    /\ updateCall' = call
    /\ presented' = state
    /\ lastOp' = op
    /\ UNCHANGED <<recVars, camera, caller, callVars, elapsed, preSmoothing, passes,
                   discarded, ui, thrown, stoppedArrays, loop>>

StartPlayback == PlaybackStep("startPlayback", startPlayback(playback, samples), Null, Null)
StopPlayback == PlaybackStep("stopPlayback", stopPlayback(playback), Null, Null)
PausePlayback == PlaybackStep("pausePlayback", pausePlayback(playback), Null, Null)
ResumePlayback == PlaybackStep("resumePlayback", resumePlayback(playback), Null, Null)
SeekToFrame(frame) ==
    PlaybackStep("seekToFrame", seekToFrame(playback, frame, samples), Null, Null)
PlaybackUpdate(deltaTime) ==
    PlaybackStep("playbackUpdate",
                 playbackUpdate(playback, deltaTime, samples, channelArrays).pb,
                 Some([deltaTime |-> deltaTime,
                       returned |-> playbackUpdate(playback, deltaTime, samples,
                                                   channelArrays).returned]),
                 Null)
GetCurrentCameraState ==
    PlaybackStep("getCurrentCameraState", playback, updateCall,
                 getCurrentCameraState(playback, samples, channelArrays))

PlaybackOps == {"startPlayback", "stopPlayback", "pausePlayback", "resumePlayback",
                "seekToFrame", "playbackUpdate", "getCurrentCameraState"}

SeekTargets == {-1, 1, MaxAppFrames + 1}

NextPlayback ==
    \/ StartRecording /\ UNCHANGED appVars
    \/ StopRecording /\ UNCHANGED appVars
    \/ \E dt \in FrameDeltas({InitialRate}) :
          /\ ~isRecording \/ Len(UpdateResult(dt).smps) <= MaxAppFrames
          /\ Update(dt)
          /\ UNCHANGED appVars
    \/ PilotUpdate /\ UNCHANGED appVars
    \/ StartPlayback
    \/ StopPlayback
    \/ PausePlayback
    \/ ResumePlayback
    \/ \E frame \in SeekTargets : SeekToFrame(frame)
    \/ \E dt \in FrameDeltas(AppRates) : PlaybackUpdate(dt)
    \/ GetCurrentCameraState
    \/ \E options \in {PanelExportOptions} : HandleExportSchedules(options)

SpecPlayback == Init /\ [][NextPlayback]_vars

\* C14: startPlayback with zero recorded frames changes no field of the
\* driver (an Idle driver stays Idle, frame counter and accumulator as they
\* were) and throws nothing; with at least one recorded frame it leaves the
\* driver playing, not paused, with frame counter 0 and accumulator 0.
C14_StartPrecondition ==
    [][lastOp' = "startPlayback" =>
          /\ thrown' = thrown
          /\ Len(samples) = 0 =>
                /\ playback' = playback
                /\ ~playback.isPlaying => ~playback'.isPlaying
          /\ Len(samples) > 0 =>
                /\ playback'.isPlaying
                /\ ~playback'.isPaused
                /\ playback'.currentFrame = 0
                /\ playback'.accumulator = 0]_vars

\* startPlayback has left an Idle driver as it was, frame counter 1 from an
\* earlier seek, because the Recorder holds no sample
C14_Witness ==
    /\ lastOp = "startPlayback"
    /\ Len(samples) = 0
    /\ ~playback.isPlaying
    /\ playback.currentFrame = 1

\* C17: update while the Recorder is not armed, revertSmoothing without a
\* baseline and applySmoothing without channel arrays leave every Recorder
\* field as it was (none of the three has a throw).
C17_SilentNoOps ==
    [][(\/ lastOp' = "update" /\ ~isRecording
        \/ lastOp' = "revertSmoothing" /\ originalChannelArrays = Null
        \/ lastOp' = "applySmoothing" /\ channelArrays = Null)
          => UNCHANGED <<samples, channelArrays, originalChannelArrays, isRecording,
                         currentFrame, accumulator, fixedDelta>>]_vars

\* update has run on a Recorder that was stopped with samples
C17_Witness ==
    /\ lastOp = "update"
    /\ ~isRecording
    /\ Len(samples) >= 2
    /\ channelArrays # Null

\* C18: no Playback method and no export changes the Recorder's samples,
\* channel arrays or baseline.
C18_ReadersDoNotWrite ==
    [][lastOp' \in PlaybackOps \cup {"exportSchedules"} =>
          UNCHANGED <<samples, channelArrays, originalChannelArrays>>]_vars

\* the driver has presented a frame of a recording that was also exported
C18_Witness ==
    /\ lastOp = "getCurrentCameraState"
    /\ presented # Null
    /\ callResult # Null
    /\ playback.currentFrame >= 1
    /\ channelArrays # Null

\* ----------------------------------------------------- validateOptions alone
\* One call of validateOptions(options, totalFrames) on a grid of options
\* around the limits of every rule.

\* errors.push(message) when the condition holds
PushIf(errors, condition, message) == IF condition THEN Append(errors, message) ELSE errors

FrameEndMessage(totalFrames) ==
    "Frame end must be less than total frames (" \o ToString(totalFrames) \o ")"

\* Exporter.validateOptions
validateOptionsInclusiveEnd(options, totalFrames) ==
    LET e1 == PushIf(<<>>, options.frameStart < 0, "Frame start must be non-negative")
        e2 == PushIf(e1, options.frameEnd < options.frameStart,
                     "Frame end must be greater than or equal to frame start")
        e3 == PushIf(e2, options.frameEnd > totalFrames, FrameEndMessage(totalFrames))
        e4 == PushIf(e3, options.frameStep <= 0, "Frame step must be positive")
        e5 == PushIf(e4, RLeq(options.axisScaleX, Zero), "Axis scale X must be positive")
        e6 == PushIf(e5, RLeq(options.axisScaleY, Zero), "Axis scale Y must be positive")
    IN  PushIf(e6, RLeq(options.axisScaleZ, Zero), "Axis scale Z must be positive")
validateOptions(options, totalFrames) ==
    LET e1 == PushIf(<<>>, options.frameStart < 0, "Frame start must be non-negative")
        e2 == PushIf(e1, options.frameEnd < options.frameStart,
                     "Frame end must be greater than or equal to frame start")
        e3 == PushIf(e2, options.frameEnd >= totalFrames, FrameEndMessage(totalFrames))
        e4 == PushIf(e3, options.frameStep <= 0, "Frame step must be positive")
        e5 == PushIf(e4, RLeq(options.axisScaleX, Zero), "Axis scale X must be positive")
        e6 == PushIf(e5, RLeq(options.axisScaleY, Zero), "Axis scale Y must be positive")
    IN  PushIf(e6, RLeq(options.axisScaleZ, Zero), "Axis scale Z must be positive")

ValidatedScales == {R(-1), Zero, Frac(1, 2), One}

ValidatedOptions ==
    {[frameStart |-> fs, frameEnd |-> fe, frameStep |-> step,
      axisScaleX |-> ax, axisScaleY |-> ay, axisScaleZ |-> az,
      includeEmptyFrames |-> TRUE, preferAngleOverLens |-> TRUE,
      cadence |-> Null, masterScaleTranslate |-> Null, masterScaleRotate |-> Null] :
        fs \in -1..2, fe \in -1..(MaxValidatedFrames + 1), step \in -1..2,
        ax \in ValidatedScales, ay \in ValidatedScales, az \in {R(-1), One}}

InitValidate ==
    /\ InitRecorder
    /\ InitApp
    /\ callArgs \in {Some([options |-> o, totalFrames |-> n]) :
                        o \in ValidatedOptions, n \in 0..MaxValidatedFrames}
    /\ callResult = Null

ValidateOptionsCall ==
    /\ callResult = Null
    /\ callResult' = Some(validateOptions(Val(callArgs).options, Val(callArgs).totalFrames))
    /\ lastOp' = "validateOptions"
    /\ UNCHANGED <<recVars, camera, caller, callArgs, elapsed, preSmoothing, passes, discarded,
                   appVars>>

NextValidate == ValidateOptionsCall

SpecValidate == InitValidate /\ [][NextValidate]_vars

\* the rules C15 lists, as the set of those the options break
BrokenRules(o, totalFrames) ==
    {rule \in {"frameStart >= 0", "frameEnd >= frameStart", "frameEnd < totalFrames",
               "frameStep > 0", "axisScaleX > 0", "axisScaleY > 0", "axisScaleZ > 0"} :
        CASE rule = "frameStart >= 0" -> ~(o.frameStart >= 0)
          [] rule = "frameEnd >= frameStart" -> ~(o.frameEnd >= o.frameStart)
          [] rule = "frameEnd < totalFrames" -> ~(o.frameEnd < totalFrames)
          [] rule = "frameStep > 0" -> ~(o.frameStep > 0)
          [] rule = "axisScaleX > 0" -> ~RLess(Zero, o.axisScaleX)
          [] rule = "axisScaleY > 0" -> ~RLess(Zero, o.axisScaleY)
          [] rule = "axisScaleZ > 0" -> ~RLess(Zero, o.axisScaleZ)}

\* C15: validateOptions returns a list (it has no throw) that is empty exactly
\* when frameStart >= 0, frameEnd >= frameStart, frameEnd < totalFrames,
\* frameStep > 0 and the three axis scales > 0 all hold, with one message for
\* each rule that is broken; the options it was given are as they were.
C15_ValidateOptions ==
    [][lastOp' = "validateOptions" =>
          LET o == Val(callArgs).options
              n == Val(callArgs).totalFrames
              errors == Val(callResult')
          IN  /\ (errors = <<>>) = (BrokenRules(o, n) = {})
              /\ Len(errors) = Cardinality(BrokenRules(o, n))
              /\ \A i, j \in DOMAIN errors : i # j => errors[i] # errors[j]
              /\ callArgs' = callArgs]_vars

\* frameEnd = totalFrames is the only rule broken, and the only message
C15_Witness ==
    /\ lastOp = "validateOptions"
    /\ Val(callArgs).options.frameEnd = Val(callArgs).totalFrames
    /\ Val(callArgs).totalFrames = MaxValidatedFrames
    /\ Val(callResult) = <<FrameEndMessage(MaxValidatedFrames)>>

\* C16 (as claimed): an export invoked with options that break a validation
\* rule generates no schedules.
C16_InvalidOptionsStopExport ==
    (lastOp = "exportSchedules" /\ callArgs # Null
        /\ validateOptions(Val(callArgs).options,
                           Len(Val(callArgs).channelArrays.translation_x)) # <<>>)
      => callResult = Null

\* ------------------------------------------------- App with a running render loop
\* The render loop calls handleFrame again and again (useFrame), whatever else
\* the user does.
FrameTick ==
    \E dt \in FrameDeltas(AppRates), cam \in {camera, Min(camera + 1, NumPoses)} :
        /\ Len(FrameResult(dt, cam).rec.smps) <= MaxAppFrames
        /\ HandleFrame(dt, cam)

SpecAppFair == SpecApp /\ WF_vars(FrameTick)

\* the timesteps update's loop takes out of an accumulator while frames last
RECURSIVE TimestepsIn(_, _)
TimestepsIn(acc, delta) ==
    IF acc >= delta THEN 1 + TimestepsIn(Fl(acc - delta), delta) ELSE 0

C20_PresentedOneBehind ==
    (lastOp = "handleFrame" /\ updateCall # Null /\ Val(updateCall).returned
        /\ playback.currentFrame >= 1 /\ playback.currentFrame <= Len(samples))
      => /\ presented # Null
         /\ presented = getCameraStateAtFrame(channelArrays, playback.currentFrame - 1)

\* ------------------------------------------------------------ no stale state
\* the pose a sample holds: position, angles and field of view
PoseOfSample(sample) ==
    [position |-> <<sample.px, sample.py, sample.pz>>,
     rotation |-> <<sample.rx, sample.ry, sample.rz>>,
     fov |-> sample.fov]

\* C21: getCurrentCameraState returns null whenever the driver is not playing
\* or its frame counter is at or past the number of recorded frames; what it
\* returns otherwise is the pose of the frame before the counter in the
\* recording the Recorder holds now, never one of a discarded recording.
C21_NoStaleState ==
    lastOp = "getCurrentCameraState" =>
        /\ (~playback.isPlaying \/ playback.currentFrame >= Len(samples)
                \/ playback.currentFrame < 0)
              => presented = Null
        /\ presented # Null =>
              /\ channelArrays # Null
              /\ playback.currentFrame - 1 \in 0..(Len(samples) - 1)
              /\ [f \in {"position", "rotation", "fov"} |-> Val(presented)[f]]
                    = PoseOfSample(samples[playback.currentFrame - 1 + 1])

\* the query found no state after a playback of a recording that is still
\* held has been stopped and the counter moved into the recorded range
C21_Witness ==
    /\ lastOp = "getCurrentCameraState"
    /\ presented = Null
    /\ ~playback.isPlaying
    /\ playback.currentFrame = 1
    /\ channelArrays # Null
    /\ Len(samples) = MaxAppFrames
    /\ updateCall # Null

C23_StartDiscards ==
    /\ [][lastOp' = "startRecording" =>
            /\ samples' = <<>>
            /\ channelArrays' = Null
            /\ originalChannelArrays' = Null
            /\ currentFrame' = 0
            /\ accumulator' = 0
            /\ isRecording'
            /\ \A frame \in -1..MaxFrames :
                  getCameraStateAtFrame(channelArrays', frame) = Null]_vars
    /\ [](\A i \in 1..Len(samples) : samples[i].frame = i - 1)

\* a recording has been started after a caller read data of an earlier one
\* and wrote into it
C23_Witness ==
    /\ lastOp = "startRecording"
    /\ caller.writes >= 1
    /\ samples = <<>>
    /\ channelArrays = Null
    /\ originalChannelArrays = Null
    /\ isRecording

\* ------------------------------------------- generateSchedules: the deltas
\* One call of generateSchedules on recordings that drift, turn or fly
\* forward, with steps and cadences that skip frames.
DeltaKinds == {"drift", "turn", "forward"}

DeltaOptions ==
    {[frameStart |-> fs, frameEnd |-> MaxExportFrames, frameStep |-> step,
      axisScaleX |-> ax[1], axisScaleY |-> ax[2], axisScaleZ |-> ax[3],
      includeEmptyFrames |-> inc, preferAngleOverLens |-> TRUE,
      cadence |-> cad, masterScaleTranslate |-> ms[1], masterScaleRotate |-> ms[2]] :
        fs \in {0, 1}, step \in {1, 2, 3}, ax \in AxisScales, inc \in BOOLEAN,
        cad \in {Null, Some(1), Some(2), Some(3)},
        ms \in {<<Null, Null>>, <<Some(R(5)), Some(R(-4))>>}}

InitDeltas ==
    /\ InitRecorder
    /\ InitApp
    /\ callArgs \in {Some([channelArrays |-> ExportArrays(kind, n), options |-> o]) :
                        kind \in DeltaKinds, n \in 0..MaxExportFrames, o \in DeltaOptions}
    /\ callResult = Null

NextDeltas == GenerateSchedulesCall

SpecDeltas == InitDeltas /\ [][NextDeltas]_vars

\* the orientation recorded at a frame is the zero orientation
ZeroOrientationAt(arrays, frame) ==
    /\ At(arrays.rotation_3d_x, frame) = Zero
    /\ At(arrays.rotation_3d_y, frame) = Zero
    /\ At(arrays.rotation_3d_z, frame) = Zero

\* angle * 0.1 in degrees, the angle in quarter turns
TenthOfDegrees(q) == RMul(RMul(q, R(90)), Frac(1, 10))

\* C24: for every emitted keyframe k after the first, prev being the
\* keyframe emitted just before it, each rotation value is the master rotate
\* factor times a tenth of r[k] - r[prev] in degrees, negated for pitch and
\* yaw and not for roll; and where the orientation at prev is zero,
\* translation_x is factor * axisScaleX * (x[k] - x[prev]) and
\* translation_y, translation_z the like with the sign negated.
C24_DeltasAgainstPreviousKeyframe ==
    Exported =>
        LET a == ExportedArrays
            o == ExportedOptions
            res == Val(callResult)
            tf == ClaimedFactor(o.masterScaleTranslate)
            rf == ClaimedFactor(o.masterScaleRotate)
            D(c, k, prev) == RSub(At(a[c], k), At(a[c], prev))
        IN  \A i \in 1..(Len(res.translation_x) - 1) :
                LET prev == res.translation_x[i][1]
                    k == res.translation_x[i + 1][1]
                IN  /\ res.rotation_3d_x[i + 1] =
                          <<k, RMul(rf, RNeg(TenthOfDegrees(D("rotation_3d_x", k, prev))))>>
                    /\ res.rotation_3d_y[i + 1] =
                          <<k, RMul(rf, RNeg(TenthOfDegrees(D("rotation_3d_y", k, prev))))>>
                    /\ res.rotation_3d_z[i + 1] =
                          <<k, RMul(rf, TenthOfDegrees(D("rotation_3d_z", k, prev)))>>
                    /\ ZeroOrientationAt(a, prev) =>
                          /\ res.translation_x[i + 1] =
                                <<k, RMul(tf, RMul(o.axisScaleX, D("translation_x", k, prev)))>>
                          /\ res.translation_y[i + 1] =
                                <<k, RMul(tf, RMul(o.axisScaleY,
                                                   RNeg(D("translation_y", k, prev))))>>
                          /\ res.translation_z[i + 1] =
                                <<k, RMul(tf, RMul(o.axisScaleZ,
                                                   RNeg(D("translation_z", k, prev))))>>

\* a drifting recording has been exported at every second frame, with at
\* least three keyframes
C24_Witness ==
    /\ Exported
    /\ ExportedOptions.frameStep = 2
    /\ Len(Val(callResult).translation_x) >= 3
    /\ \A i \in 1..3 : ZeroOrientationAt(ExportedArrays, Val(callResult).translation_x[i][1])
    /\ Val(callResult).translation_x[3][1] = Val(callResult).translation_x[2][1] + 2
    /\ Val(callResult).translation_x[3][2] # Zero
    /\ Val(callResult).translation_y[3][2] # Zero
    /\ Val(callResult).translation_z[3][2] # Zero

\* C25: when the camera at the previous keyframe is level (no pitch, no
\* roll) at some yaw and the displacement to the next keyframe is s units
\* along its viewing direction, translation_x and translation_y are 0 and
\* translation_z is factor * axisScaleZ * s, the same for every yaw.
C25_LocalReprojection ==
    Exported =>
        LET a == ExportedArrays
            o == ExportedOptions
            res == Val(callResult)
            tf == ClaimedFactor(o.masterScaleTranslate)
        IN  \A i \in 1..(Len(res.translation_x) - 1) :
                LET prev == res.translation_x[i][1]
                    k == res.translation_x[i + 1][1]
                    yaw == At(a.rotation_3d_y, prev)
                    w == [c \in {"translation_x", "translation_y", "translation_z"} |->
                             RSub(At(a[c], k), At(a[c], prev))]
                    s == RNeg(RAdd(RMul(w.translation_x, Sin(yaw)),
                                   RMul(w.translation_z, Cos(yaw))))
                IN  (/\ At(a.rotation_3d_x, prev) = Zero
                     /\ At(a.rotation_3d_z, prev) = Zero
                     /\ s # Zero
                     /\ w.translation_x = RMul(s, Forward(yaw).x)
                     /\ w.translation_y = Zero
                     /\ w.translation_z = RMul(s, Forward(yaw).z))
                    => /\ res.translation_x[i + 1] = <<k, Zero>>
                       /\ res.translation_y[i + 1] = <<k, Zero>>
                       /\ res.translation_z[i + 1] = <<k, RMul(tf, RMul(o.axisScaleZ, s))>>

\* a flight forward through all four quarter-turn yaws has been exported
\* frame by frame: one and the same translation_z at keyframes 1..4, and
\* nothing on translation_x
C25_Witness ==
    /\ Exported
    /\ ExportedArrays = ExportArrays("forward", MaxExportFrames)
    /\ ExportedOptions.frameStart = 0
    /\ ExportedOptions.frameStep = 1
    /\ ExportedOptions.cadence = Null
    /\ Len(Val(callResult).translation_z) >= 5
    /\ \A i \in 2..5 :
          /\ Val(callResult).translation_z[i][2] = Val(callResult).translation_z[2][2]
          /\ Val(callResult).translation_x[i][2] = Zero
          /\ ExportedArrays.rotation_3d_y[i - 1] = R(i - 2)
    /\ RLess(Zero, Val(callResult).translation_z[2][2])

\* C26 (as claimed): with includeEmptyFrames set and cadence <= 1, every
\* integer frame of the export window [frameStart, min(frameEnd,
\* totalFrames - 1)] has an entry in each of the six schedules, for every
\* frameStep > 0.
C26_BackfillComplete ==
    (/\ Exported
     /\ ExportedOptions.includeEmptyFrames
     /\ CadenceAtMost1(ExportedOptions)
     /\ ExportedOptions.frameStep > 0)
    => \A c \in ScheduleChannels :
          \A frame \in ExportedOptions.frameStart..WindowEnd :
              frame \in FramesOf(Val(callResult)[c])

\* ------------------------------------------------------------ rotation order
\* where a camera looks (the image of its local -z) when its rotation is the
\* Euler angles x, y, z composed in the given order
ViewDirection(order, x, y, z) ==
    IF order = "YXZ"
    THEN <<RNeg(RMul(Cos(x), Sin(y))), Sin(x), RNeg(RMul(Cos(x), Cos(y)))>>
    ELSE <<RNeg(Sin(y)), RMul(Sin(x), Cos(y)), RNeg(RMul(Cos(x), Cos(y)))>>

\* C27 (as claimed): capture, export and playback attach one and the same
\* rotation order to a recorded orientation, so the pose a playback hands to
\* the camera looks where the camera looked when the frame was captured.
C27_OneRotationOrder ==
    (lastOp = "handleFrame" /\ presented # Null) =>
        LET shown == Val(presented)
            sample == samples[playback.currentFrame]
        IN  /\ ExportOrder = PilotOrder
            /\ shown.order = PilotOrder
            /\ ViewDirection(shown.order, shown.rotation[1], shown.rotation[2],
                              shown.rotation[3])
                  = ViewDirection(PilotOrder, sample.rx, sample.ry, sample.rz)

\* ------------------------------------------------- arrays derived once only
\* C28 (as claimed): the channel arrays and the baseline are changed only by
\* the stopRecording that ends a recording and by applySmoothing,
\* revertSmoothing, startRecording and clear; a stopRecording while the
\* Recorder is not armed leaves both as they are.
C28_DerivedOnce ==
    [][(channelArrays' # channelArrays \/ originalChannelArrays' # originalChannelArrays)
          => \/ lastOp' \in {"applySmoothing", "revertSmoothing", "startRecording", "clear"}
             \/ lastOp' = "stopRecording" /\ isRecording]_vars

\* ------------------------------------------------------- baseline invariant
\* C29: under the Recorder's methods channel arrays exist exactly when the
\* baseline exists, the baseline equals the arrays derived from the samples,
\* no applySmoothing and no revertSmoothing changes the baseline, and
\* applySmoothing never finds arrays without a baseline to snapshot.
C29_BaselineInvariant ==
    /\ []((channelArrays = Null) <=> (originalChannelArrays = Null))
    /\ [](originalChannelArrays # Null => Val(originalChannelArrays) = ArraysOf(samples))
    /\ [][lastOp' \in {"applySmoothing", "revertSmoothing"} =>
            /\ UNCHANGED originalChannelArrays
            /\ channelArrays # Null => originalChannelArrays # Null]_vars

\* smoothing has been compounded on a recording and the baseline is still
\* the arrays derived from the samples, unlike the channel arrays
C29_Witness ==
    /\ lastOp = "applySmoothing"
    /\ passes >= 2
    /\ originalChannelArrays = Some(ArraysOf(samples))
    /\ channelArrays # originalChannelArrays
    /\ Len(samples) >= 2

\* --------------------------------------- generateSchedules, one iteration at
\* a time. The call is followed through its keyframe loop, the six
\* addEmptyFrames loops and the building of the strings; it is given options
\* as handleExportSchedules passes them on, unvalidated.
LoopOptions ==
    {[frameStart |-> fs, frameEnd |-> fe, frameStep |-> step,
      axisScaleX |-> One, axisScaleY |-> One, axisScaleZ |-> One,
      includeEmptyFrames |-> inc, preferAngleOverLens |-> TRUE,
      cadence |-> cad, masterScaleTranslate |-> Null, masterScaleRotate |-> Null] :
        fs \in {-1, 0, 1}, fe \in {1, MaxLoopFrames + 1}, step \in {0, 1, 2},
        inc \in BOOLEAN, cad \in {Null, Some(-2), Some(0), Some(2)}}

InitLoop ==
    /\ InitRecorder
    /\ InitApp
    /\ callArgs \in {Some([channelArrays |-> ExportArrays("drift", n), options |-> o]) :
                        n \in 0..MaxLoopFrames, o \in LoopOptions}
    /\ callResult = Null

\* the Maps in the order addEmptyFrames is called on them
BackfilledMaps == <<"translationX", "translationY", "translationZ",
                    "rotationX", "rotationY", "rotationZ">>

LoopArrays == Val(callArgs).channelArrays
LoopOpts == Val(callArgs).options

LoopStep(next) ==
    /\ loop' = next
    /\ UNCHANGED <<recVars, camera, caller, callVars, histVars,
                   playback, ui, updateCall, presented, thrown, stoppedArrays>>

\* generateSchedules is entered: the Maps are empty, frame = startFrameForCadence
EnterGenerateSchedules ==
    /\ loop = Null
    /\ callResult = Null
    /\ LoopStep(Some([phase |-> "keyframes", frame |-> startFrameForCadence(LoopOpts),
                      channel |-> 0, st |-> LoopStart(LoopOpts)]))

\* after the keyframe loop: the backfill if (includeEmptyFrames && cadence <= 1)
AfterKeyframes(l) ==
    IF LoopOpts.includeEmptyFrames /\ CadenceAtMost1(LoopOpts)
    THEN [l EXCEPT !.phase = "backfill", !.channel = 1, !.frame = LoopOpts.frameStart]
    ELSE [l EXCEPT !.phase = "build"]

\* one iteration of the keyframe loop: break, continue, or the loop body;
\* frame += frameStep
KeyframeIteration ==
    /\ loop # Null
    /\ Val(loop).phase = "keyframes"
    /\ Val(loop).frame <= actualFrameEnd(LoopArrays, LoopOpts)
    /\ LET l == Val(loop)
       IN  LoopStep(Some(
              IF l.frame >= Len(LoopArrays.translation_x) THEN AfterKeyframes(l)
              ELSE IF CadenceAbove1(LoopOpts) /\ JsRem(l.frame, Val(LoopOpts.cadence)) # 0
                   THEN [l EXCEPT !.frame = @ + LoopOpts.frameStep]
              ELSE [l EXCEPT !.frame = @ + LoopOpts.frameStep,
                             !.st = RotationStep(LoopArrays, LoopOpts, l.frame,
                                       TranslationStep(LoopArrays, LoopOpts, l.frame, l.st))]))

\* the keyframe loop's condition frame <= actualFrameEnd fails
KeyframeLoopEnd ==
    /\ loop # Null
    /\ Val(loop).phase = "keyframes"
    /\ Val(loop).frame > actualFrameEnd(LoopArrays, LoopOpts)
    /\ LoopStep(Some(AfterKeyframes(Val(loop))))

\* one iteration of addEmptyFrames' loop on one Map
BackfillIteration ==
    /\ loop # Null
    /\ Val(loop).phase = "backfill"
    /\ Val(loop).frame <= actualFrameEnd(LoopArrays, LoopOpts)
    /\ LET l == Val(loop)
           map == BackfilledMaps[l.channel]
       IN  LoopStep(Some(
              [l EXCEPT !.frame = @ + LoopOpts.frameStep,
                        !.st[map] = IF MapHas(@, l.frame) THEN @
                                    ELSE MapSet(@, l.frame, Zero)]))

\* addEmptyFrames returns: on to the next Map, or to the strings
BackfillEnd ==
    /\ loop # Null
    /\ Val(loop).phase = "backfill"
    /\ Val(loop).frame > actualFrameEnd(LoopArrays, LoopOpts)
    /\ LET l == Val(loop)
       IN  LoopStep(Some(
              IF l.channel < Len(BackfilledMaps)
              THEN [l EXCEPT !.channel = @ + 1, !.frame = LoopOpts.frameStart]
              ELSE [l EXCEPT !.phase = "build"]))

\* the six strings are built and generateSchedules returns
ReturnSchedules ==
    /\ loop # Null
    /\ Val(loop).phase = "build"
    /\ loop' = Null
    /\ callResult' = Some(
          [translation_x |-> buildScheduleString(Val(loop).st.translationX),
           translation_y |-> buildScheduleString(Val(loop).st.translationY),
           translation_z |-> buildScheduleString(Val(loop).st.translationZ),
           rotation_3d_x |-> buildScheduleString(Val(loop).st.rotationX),
           rotation_3d_y |-> buildScheduleString(Val(loop).st.rotationY),
           rotation_3d_z |-> buildScheduleString(Val(loop).st.rotationZ)])
    /\ lastOp' = "generateSchedules"
    /\ UNCHANGED <<recVars, camera, caller, callArgs, elapsed, preSmoothing, passes, discarded,
                   playback, ui, updateCall, presented, thrown, stoppedArrays>>

NextLoop ==
    \/ EnterGenerateSchedules
    \/ KeyframeIteration
    \/ KeyframeLoopEnd
    \/ BackfillIteration
    \/ BackfillEnd
    \/ ReturnSchedules

SpecLoop == InitLoop /\ [][NextLoop]_vars

\* JavaScript runs a call on to its end: whatever step is possible is taken
SpecLoopFair == SpecLoop /\ WF_vars(NextLoop)

\* C30 (as claimed): every generateSchedules call returns, whatever integer
\* options it is given, frameStep <= 0, negative frameStart and cadence <= 0
\* included.
C30_ExportTerminates == (loop # Null) ~> (callResult # Null)
====
